---- MODULE Spec2Model ----
(***************************************************************************)
(* Model of the Apache/Linux audit helper.                                 *)
(*                                                                         *)
(*   src/audit_apache/audit_apache.py   _parse_config_files (the directive *)
(*                                      collector), run_apache_audit       *)
(*   src/audit_system/audit_system.py   _get_os_info, run_linux_audit      *)
(*                                                                         *)
(* Python strings are sequences of one-character strings, so that strip,   *)
(* lower, startswith, split, dirname, isabs and join are computed the way  *)
(* the interpreter computes them.  The file system is a map from path      *)
(* strings to files; a file is identified by its path string, as the       *)
(* collector's processed_files set identifies it.                          *)
(***************************************************************************)
EXTENDS Integers, Sequences, FiniteSets, TLC

\* ------------------------------------------------------------------------
\* Bounds of the model
\* ------------------------------------------------------------------------

\* Longest root configuration file, in lines.
MaxLines == 2

\* Number of calls of _parse_config_files (or audits) in one behaviour.
MaxRuns == 2

\* Upper limit on the files opened during one call; the collector never
\* reaches it, because it opens each path string once.
MaxScans == 5

\* ------------------------------------------------------------------------
\* Python string primitives
\* ------------------------------------------------------------------------

\* Characters str.strip() and str.split() treat as whitespace.
Whitespace == {" ", "\t", "\n", "\r"}

UpperAlpha == <<"A", "B", "C", "D", "E", "F", "G", "H", "I", "J", "K", "L", "M",
                "N", "O", "P", "Q", "R", "S", "T", "U", "V", "W", "X", "Y", "Z">>

LowerAlpha == <<"a", "b", "c", "d", "e", "f", "g", "h", "i", "j", "k", "l", "m",
                "n", "o", "p", "q", "r", "s", "t", "u", "v", "w", "x", "y", "z">>

\* str.lower() on one character.
LowerChar(c) ==
    IF \E i \in 1..26 : UpperAlpha[i] = c
    THEN LowerAlpha[CHOOSE i \in 1..26 : UpperAlpha[i] = c]
    ELSE c

\* str.lower()
Lower(s) == [i \in 1..Len(s) |-> LowerChar(s[i])]

\* Index of the first non-whitespace character of s, Len(s)+1 when none.
FirstNonWs(s) ==
    IF \E i \in 1..Len(s) : s[i] \notin Whitespace
    THEN CHOOSE i \in 1..Len(s) :
            /\ s[i] \notin Whitespace
            /\ \A j \in 1..(i-1) : s[j] \in Whitespace
    ELSE Len(s) + 1

\* Index of the last non-whitespace character of s, 0 when none.
LastNonWs(s) ==
    IF \E i \in 1..Len(s) : s[i] \notin Whitespace
    THEN CHOOSE i \in 1..Len(s) :
            /\ s[i] \notin Whitespace
            /\ \A j \in (i+1)..Len(s) : s[j] \in Whitespace
    ELSE 0

\* str.strip()
Strip(s) == SubSeq(s, FirstNonWs(s), LastNonWs(s))

\* str.startswith(prefix)
StartsWith(s, prefix) ==
    /\ Len(s) >= Len(prefix)
    /\ SubSeq(s, 1, Len(prefix)) = prefix

\* Index of the first whitespace character of s at or after position from,
\* Len(s)+1 when none.
FirstWsFrom(s, from) ==
    IF \E i \in from..Len(s) : s[i] \in Whitespace
    THEN CHOOSE i \in from..Len(s) :
            /\ s[i] \in Whitespace
            /\ \A j \in from..(i-1) : s[j] \notin Whitespace
    ELSE Len(s) + 1

\* str.split(maxsplit=1): the first whitespace-delimited token and, when
\* something other than whitespace follows it, the rest of the string from
\* the next non-whitespace character on (trailing whitespace kept).
SplitMax1(s) ==
    LET b == FirstNonWs(s)
        e == FirstWsFrom(s, b)
        tail == SubSeq(s, e, Len(s))
        r == e + FirstNonWs(tail) - 1
    IN  IF b > Len(s) THEN << >>
        ELSE IF r > Len(s) THEN << SubSeq(s, b, e - 1) >>
        ELSE << SubSeq(s, b, e - 1), SubSeq(s, r, Len(s)) >>

\* os.path.isabs (posixpath)
IsAbs(p) == StartsWith(p, <<"/">>)

\* Index of the last "/" of p, 0 when none (str.rfind('/') + 1).
LastSlash(p) ==
    IF \E i \in 1..Len(p) : p[i] = "/"
    THEN CHOOSE i \in 1..Len(p) :
            /\ p[i] = "/"
            /\ \A j \in (i+1)..Len(p) : p[j] # "/"
    ELSE 0

\* str.rstrip('/')
RStripSlash(s) ==
    IF \E i \in 1..Len(s) : s[i] # "/"
    THEN SubSeq(s, 1, CHOOSE i \in 1..Len(s) :
                        /\ s[i] # "/"
                        /\ \A j \in (i+1)..Len(s) : s[j] = "/")
    ELSE << >>

\* os.path.dirname (posixpath): everything up to the last "/", with the
\* trailing slashes removed unless the head consists of slashes only.
Dirname(p) ==
    LET head == SubSeq(p, 1, LastSlash(p))
    IN  IF head # << >> /\ (\E i \in 1..Len(head) : head[i] # "/")
        THEN RStripSlash(head)
        ELSE head

\* os.path.join(a, b) (posixpath, two components)
PathJoin(a, b) ==
    IF StartsWith(b, <<"/">>) THEN b
    ELSE IF a = << >> \/ a[Len(a)] = "/" THEN a \o b
    ELSE a \o <<"/">> \o b

\* ------------------------------------------------------------------------
\* Program constants of _parse_config_files and run_apache_audit
\* ------------------------------------------------------------------------

\* directives_to_find
directives_to_find == <<
    <<"S", "e", "r", "v", "e", "r", "T", "o", "k", "e", "n", "s">>,
    <<"S", "e", "r", "v", "e", "r", "S", "i", "g", "n", "a", "t", "u", "r", "e">>,
    <<"T", "r", "a", "c", "e", "E", "n", "a", "b", "l", "e">>,
    <<"K", "e", "e", "p", "A", "l", "i", "v", "e">>,
    <<"K", "e", "e", "p", "A", "l", "i", "v", "e", "T", "i", "m", "e", "o", "u", "t">>,
    <<"T", "i", "m", "e", "o", "u", "t">>,
    <<"M", "a", "x", "R", "e", "q", "u", "e", "s", "t", "W", "o", "r", "k", "e", "r", "s">>,
    <<"U", "s", "e", "r">>,
    <<"G", "r", "o", "u", "p">>,
    <<"L", "i", "s", "t", "e", "n">>,
    <<"L", "o", "g", "L", "e", "v", "e", "l">>,
    <<"E", "r", "r", "o", "r", "L", "o", "g">>,
    <<"C", "u", "s", "t", "o", "m", "L", "o", "g">>,
    <<"S", "S", "L", "E", "n", "g", "i", "n", "e">>,
    <<"S", "S", "L", "P", "r", "o", "t", "o", "c", "o", "l">>,
    <<"S", "S", "L", "C", "i", "p", "h", "e", "r", "S", "u", "i", "t", "e">>,
    <<"O", "p", "t", "i", "o", "n", "s">>,
    <<"A", "l", "l", "o", "w", "O", "v", "e", "r", "r", "i", "d", "e">> >>

\* The directives of interest, as a set.
DirectiveSet == {directives_to_find[i] : i \in 1..Len(directives_to_find)}

\* "Non trouvé": the value of a directive no scanned line has set.
NonTrouve == <<"N", "o", "n", " ", "t", "r", "o", "u", "v", "é">>

\* "Activé (sans valeur)": the value of a directive whose line has no text
\* after the directive name.
ActiveSansValeur == <<"A", "c", "t", "i", "v", "é", " ", "(", "s", "a", "n", "s",
                      " ", "v", "a", "l", "e", "u", "r", ")">>

\* The prefixes of line.lower().startswith(('include ', 'includeoptional ')).
IncludePrefixes == {
    <<"i", "n", "c", "l", "u", "d", "e", " ">>,
    <<"i", "n", "c", "l", "u", "d", "e", "o", "p", "t", "i", "o", "n", "a", "l", " ">> }

\* main_config_file = "/etc/apache2/apache2.conf"
main_config_file == <<"/", "e", "t", "c", "/", "a", "p", "a", "c", "h", "e", "2", "/",
                      "a", "p", "a", "c", "h", "e", "2", ".", "c", "o", "n", "f">>

\* ------------------------------------------------------------------------
\* The configuration tree on disk
\* ------------------------------------------------------------------------

\* '/etc/apache2/a'
PathA == <<"/", "e", "t", "c", "/", "a", "p", "a", "c", "h", "e", "2", "/", "a">>

\* '/etc/apache2/d/b'
PathB == <<"/", "e", "t", "c", "/", "a", "p", "a", "c", "h", "e", "2", "/", "d", "/", "b">>

\* The path strings that can name a file on disk.
Paths == {main_config_file, PathA, PathB}

\* 'User r\n'
L_UserR == <<"U", "s", "e", "r", " ", "r", "\n">>

\* 'User\n'
L_UserNoValue == <<"U", "s", "e", "r", "\n">>

\* 'user r\n'
L_userLower == <<"u", "s", "e", "r", " ", "r", "\n">>

\* '# User c\n'
L_Comment == <<"#", " ", "U", "s", "e", "r", " ", "c", "\n">>

\* 'Include a\n'
L_IncludeA == <<"I", "n", "c", "l", "u", "d", "e", " ", "a", "\n">>

\* 'include /etc/apache2/a\n'
L_includeAbsA == <<"i", "n", "c", "l", "u", "d", "e", " ", "/", "e", "t", "c", "/",
                   "a", "p", "a", "c", "h", "e", "2", "/", "a", "\n">>

\* 'Include\ta\n'
L_IncludeTabA == <<"I", "n", "c", "l", "u", "d", "e", "\t", "a", "\n">>

\* 'IncludeOptional d/b\n'
L_IncludeOptionalB == <<"I", "n", "c", "l", "u", "d", "e", "O", "p", "t", "i", "o", "n",
                        "a", "l", " ", "d", "/", "b", "\n">>

\* 'Include apache2.conf\n'
L_IncludeRoot == <<"I", "n", "c", "l", "u", "d", "e", " ", "a", "p", "a", "c", "h", "e",
                   "2", ".", "c", "o", "n", "f", "\n">>

\* 'User a\n'
L_UserA == <<"U", "s", "e", "r", " ", "a", "\n">>

\* '\tUser  a 1 \n'
L_UserSpaced == <<"\t", "U", "s", "e", "r", " ", " ", "a", " ", "1", " ", "\n">>

\* '\n'
L_Blank == <<"\n">>

\* '  # Include d/b\n'
L_CommentInclude == <<" ", " ", "#", " ", "I", "n", "c", "l", "u", "d", "e", " ",
                      "d", "/", "b", "\n">>

\* 'Listen 80\n'
L_Listen == <<"L", "i", "s", "t", "e", "n", " ", "8", "0", "\n">>

\* 'User b\n'
L_UserB == <<"U", "s", "e", "r", " ", "b", "\n">>

\* 'Include x\n'
L_IncludeMissing == <<"I", "n", "c", "l", "u", "d", "e", " ", "x", "\n">>

\* 'Include d/*\n'
L_IncludeGlob == <<"I", "n", "c", "l", "u", "d", "e", " ", "d", "/", "*", "\n">>

\* failAt of a file every line of which can be read.
NoFail == -1

\* A path that names nothing on disk.
Missing == [kind |-> "missing", lines |-> << >>, failAt |-> NoFail]

\* A file on disk: the lines iterating over it yields, and failAt, the number
\* of lines delivered before opening or reading it raises (0: the open
\* itself, or the first read, raises; NoFail: it never does).
File(ls, f) == [kind |-> "file", lines |-> ls, failAt |-> f]

\* All sequences over S of length at most n.
SeqsUpTo(S, n) == UNION {[1..k -> S] : k \in 0..n}

\* Lines a root configuration file is made of.
RootPool == {L_UserR, L_UserNoValue, L_userLower, L_IncludeA, L_IncludeOptionalB,
             L_IncludeRoot}

\* Contents of main_config_file: absent, unreadable, or up to MaxLines lines.
RootFiles ==
    {Missing, File(<< >>, 0)} \cup {File(ls, NoFail) : ls \in SeqsUpTo(RootPool, MaxLines)}

\* Contents of PathA.
AFiles == {
    Missing,
    File(<<L_UserA, L_includeAbsA>>, NoFail),
    File(<<L_Blank, L_UserSpaced, L_CommentInclude>>, NoFail),
    File(<<L_UserA, L_IncludeRoot>>, NoFail),
    File(<<L_Comment, L_Listen, L_UserA, L_IncludeOptionalB>>, 2),
    File(<<L_UserNoValue, L_IncludeTabA, L_IncludeOptionalB>>, NoFail) }

\* Contents of PathB.
BFiles == {
    File(<<L_UserB, L_IncludeA, L_IncludeMissing, L_IncludeGlob>>, NoFail) }

\* Values of the config_file_path argument of a direct call; the empty string
\* stands for every falsy argument (None takes the same branch).
Roots == {<< >>, main_config_file}

\* Lines of the root configuration files with include cycles.
CyclePool == {L_UserR, L_IncludeA, L_IncludeRoot}

\* Contents of main_config_file and of PathA in the trees with include
\* cycles: the root includes itself, or includes PathA, which includes it.
CycleRootFiles == {File(ls, NoFail) : ls \in SeqsUpTo(CyclePool, MaxLines)}

CycleAFiles == {
    Missing,
    File(<<L_UserA, L_IncludeRoot>>, NoFail),
    File(<<L_Blank, L_IncludeRoot, L_IncludeA>>, NoFail),
    File(<<L_IncludeRoot, L_UserA>>, 1) }

\* Lines of the root configuration files of the trees with failing files.
ErrPool == {L_UserR, L_IncludeA, L_IncludeMissing}

\* Contents of main_config_file, of PathA and of PathB in the trees with
\* failing files: included files that are absent, cannot be opened, or
\* raise after some of their lines have been read.
ErrRootFiles == {File(ls, NoFail) : ls \in SeqsUpTo(ErrPool, MaxLines)}

ErrAFiles == {
    Missing,
    File(<< >>, 0),
    File(<<L_Listen, L_IncludeOptionalB, L_UserA, L_IncludeMissing>>, 2),
    File(<<L_Blank, L_UserA, L_includeAbsA>>, NoFail) }

ErrBFiles == {
    Missing,
    File(<<L_IncludeMissing, L_IncludeA>>, NoFail),
    File(<<L_UserB, L_Listen>>, 1) }

\* Contents of main_config_file and of PathA in the trees the audits run on.
AuditRootFiles == {Missing, File(<< >>, 0), File(<<L_UserR, L_IncludeA>>, NoFail),
                   File(<<L_IncludeA, L_includeAbsA>>, NoFail)}

AuditAFiles == {Missing, File(<<L_Blank, L_UserA>>, 1)}

\* Every content a configuration file of the model can have.
AllFiles == RootFiles \cup AFiles \cup BFiles \cup CycleRootFiles \cup CycleAFiles
            \cup ErrRootFiles \cup ErrAFiles \cup ErrBFiles
            \cup AuditRootFiles \cup AuditAFiles

\* Every line of every configuration file.
RawLines == UNION {{f.lines[i] : i \in 1..Len(f.lines)} : f \in AllFiles}

\* line.strip(), tabulated for the lines of the model.
Stripped == [raw \in RawLines |-> Strip(raw)]

\* Every line of every configuration file, stripped.
StrippedLines == {Stripped[raw] : raw \in RawLines}

\* line.split(maxsplit=1), tabulated for the lines of the model.
LineParts == [line \in StrippedLines |-> SplitMax1(line)]

\* ------------------------------------------------------------------------
\* State
\* ------------------------------------------------------------------------

VARIABLES
    fs,                 \* the configuration tree on disk: path string -> file
    pc,                 \* position of the program
    caller,             \* who called _parse_config_files: "direct" or "apache"
    runs,               \* number of calls and audits started so far
    config_file_path,   \* argument of _parse_config_files
    config_dir,         \* os.path.dirname(config_file_path)
    found_directives,   \* local map of _parse_config_files
    processed_files,    \* local set of _parse_config_files
    file_paths_to_scan, \* local work list of _parse_config_files
    current_path,       \* the path being read
    lineno,             \* number of lines of current_path read so far
    result,             \* what the last call of _parse_config_files returned
    scanLog,            \* history: paths opened by the current call, in order
    enqLog,             \* history: paths appended to the work list by the current call
    prevRoot,           \* history: argument of the previous completed call
    prevResult,         \* history: what the previous completed call returned
    audit_results,      \* the dict run_apache_audit / run_linux_audit fills in
    report,             \* the JSON file the current audit wrote, NoReport before
    outcome             \* how the current audit ended

localVars == <<config_file_path, config_dir, found_directives, processed_files,
               file_paths_to_scan, current_path, lineno>>

histVars == <<scanLog, enqLog, prevRoot, prevResult>>

auditVars == <<audit_results, report, outcome>>

vars == <<fs, pc, caller, runs, localVars, result, histVars, auditVars>>

\* os.path.exists
Exists(p) == p \in DOMAIN fs /\ fs[p].kind # "missing"

\* Number of lines of file f that reading delivers.
ReadLimit(f) == IF f.failAt = NoFail THEN Len(f.lines) ELSE f.failAt

\* The value returned when the root configuration file is absent: {}.
MissingRootResult == [key \in {} |-> NonTrouve]

\* found_directives = {key: "Non trouvé" for key in directives_to_find}
InitFound == [key \in DirectiveSet |-> NonTrouve]

\* Mutant: processed_files outlives the call (a module-level set).
InitProcessedKept(old) == old

\* processed_files = set(), whatever an earlier call left behind.
InitProcessed(old) == {}

\* Mutant: the test of processed_files is left out.
AlreadyProcessedNever(p, processed) == FALSE

\* current_path in processed_files
AlreadyProcessed(p, processed) == p \in processed

\* Mutant: the path is never added to processed_files.
MarkProcessedNot(processed, p) == processed

\* processed_files.add(current_path)
MarkProcessed(processed, p) == processed \cup {p}

\* Mutant: the test for an empty line is left out.
IsCommentOnly(line) == StartsWith(line, <<"#">>)

\* not line or line.startswith('#'), on the stripped line
IsBlankOrComment(line) == line = << >> \/ StartsWith(line, <<"#">>)

\* line.lower().startswith(('include ', 'includeoptional '))
IsIncludeLine(line) == \E prefix \in IncludePrefixes : StartsWith(Lower(line), prefix)

\* Mutant: a relative path is joined to the directory of the file the line
\* was read from.
IncludeTargetFromIncluder(line, dir) ==
    LET path_pattern == LineParts[line][2]
    IN  IF ~IsAbs(path_pattern) THEN PathJoin(Dirname(current_path), path_pattern)
        ELSE path_pattern

\* The path an include line appends to the work list: the text after the
\* first token, joined to config_dir unless it is absolute.
IncludeTarget(line, dir) ==
    LET path_pattern == LineParts[line][2]
    IN  IF ~IsAbs(path_pattern) THEN PathJoin(dir, path_pattern) ELSE path_pattern

\* Mutant: the first value found is kept instead of the last.
StoreDirectiveFirstWins(found, line) ==
    LET parts == LineParts[line]
        directive == parts[1]
        value == IF Len(parts) > 1 THEN parts[2] ELSE ActiveSansValeur
    IN  IF directive \in DirectiveSet /\ found[directive] = NonTrouve
        THEN [found EXCEPT ![directive] = value]
        ELSE found

\* Mutant: the directive name is matched without regard to letter case.
StoreDirectiveAnyCase(found, line) ==
    LET parts == LineParts[line]
        directive == parts[1]
        value == IF Len(parts) > 1 THEN parts[2] ELSE ActiveSansValeur
    IN  IF \E d \in DirectiveSet : Lower(d) = Lower(directive)
        THEN [found EXCEPT ![CHOOSE d \in DirectiveSet : Lower(d) = Lower(directive)] = value]
        ELSE found

\* The directive branch: found_directives after a line that is neither a
\* comment nor an include.
StoreDirective(found, line) ==
    LET parts == LineParts[line]
        directive == parts[1]
        value == IF Len(parts) > 1 THEN parts[2] ELSE ActiveSansValeur
    IN  IF directive \in DirectiveSet
        THEN [found EXCEPT ![directive] = value]
        ELSE found

\* Where control goes when _parse_config_files returns.
ReturnPc(who) == IF who = "direct" THEN "done" ELSE "apache_write"

\* audit_results before any audit has started.
NoResults == [module |-> "none"]

\* report while the current audit has written no file.
NoReport == [module |-> "no file"]

\* ------------------------------------------------------------------------
\* _parse_config_files
\* ------------------------------------------------------------------------

\* Lines 117-136: the missing-root check and the initialisation of the locals.
ParseEnter(path, who) ==
    /\ caller' = who
    /\ config_file_path' = path
    /\ scanLog' = << >>
    /\ prevRoot' = config_file_path
    /\ prevResult' = result
    /\ IF path = << >> \/ ~Exists(path)
       THEN /\ result' = MissingRootResult
            /\ pc' = ReturnPc(who)
            /\ enqLog' = << >>
            /\ UNCHANGED <<config_dir, found_directives, processed_files,
                           file_paths_to_scan, current_path, lineno>>
       ELSE /\ found_directives' = InitFound
            /\ processed_files' = InitProcessed(processed_files)
            /\ config_dir' = Dirname(path)
            /\ file_paths_to_scan' = <<path>>
            /\ enqLog' = <<path>>
            /\ pc' = "while"
            /\ UNCHANGED <<result, current_path, lineno>>

\* A direct call of _parse_config_files(path, logger).
Call(path) ==
    /\ pc \in {"idle", "done"}
    /\ runs < MaxRuns
    /\ runs' = runs + 1
    /\ ParseEnter(path, "direct")
    /\ UNCHANGED <<fs, auditVars>>

\* Line 138 with an empty work list, lines 180-181: return found_directives.
Return ==
    /\ pc = "while"
    /\ file_paths_to_scan = << >>
    /\ result' = found_directives
    /\ pc' = ReturnPc(caller)
    /\ UNCHANGED <<fs, auditVars, caller, runs, localVars, histVars>>

\* Lines 139-142: the path popped from the front was processed before.
SkipProcessed ==
    /\ pc = "while"
    /\ file_paths_to_scan # << >>
    /\ AlreadyProcessed(Head(file_paths_to_scan), processed_files)
    /\ file_paths_to_scan' = Tail(file_paths_to_scan)
    /\ UNCHANGED <<fs, auditVars, pc, caller, runs, config_file_path, config_dir, found_directives,
                   processed_files, current_path, lineno, result, histVars>>

\* Lines 139-147: the path popped from the front does not exist.
SkipMissing ==
    /\ pc = "while"
    /\ file_paths_to_scan # << >>
    /\ ~AlreadyProcessed(Head(file_paths_to_scan), processed_files)
    /\ ~Exists(Head(file_paths_to_scan))
    /\ file_paths_to_scan' = Tail(file_paths_to_scan)
    /\ processed_files' = MarkProcessed(processed_files, Head(file_paths_to_scan))
    /\ UNCHANGED <<fs, auditVars, pc, caller, runs, config_file_path, config_dir, found_directives,
                   current_path, lineno, result, histVars>>

\* Lines 139-151: the path popped from the front is opened.
OpenFile ==
    /\ pc = "while"
    /\ file_paths_to_scan # << >>
    /\ ~AlreadyProcessed(Head(file_paths_to_scan), processed_files)
    /\ Exists(Head(file_paths_to_scan))
    /\ Len(scanLog) < MaxScans
    /\ file_paths_to_scan' = Tail(file_paths_to_scan)
    /\ processed_files' = MarkProcessed(processed_files, Head(file_paths_to_scan))
    /\ current_path' = Head(file_paths_to_scan)
    /\ lineno' = 0
    /\ scanLog' = Append(scanLog, Head(file_paths_to_scan))
    /\ pc' = "for"
    /\ UNCHANGED <<fs, auditVars, caller, runs, config_file_path, config_dir, found_directives,
                   result, enqLog, prevRoot, prevResult>>

\* The line the for loop of line 152 delivers next, stripped (line 153).
NextLine == Stripped[fs[current_path].lines[lineno + 1]]

\* A line is left to read.
HasLine == pc = "for" /\ lineno < ReadLimit(fs[current_path])

\* Lines 153-156: a blank line or a comment is skipped.
LineSkip ==
    /\ HasLine
    /\ IsBlankOrComment(NextLine)
    /\ lineno' = lineno + 1
    /\ UNCHANGED <<fs, auditVars, pc, caller, runs, config_file_path, config_dir, found_directives,
                   processed_files, file_paths_to_scan, current_path, result, histVars>>

\* Mutant: the work list is used as a stack, the path of an include line
\* being put at its front (file_paths_to_scan.insert(0, path_pattern)).
LineIncludeStack ==
    /\ HasLine
    /\ ~IsBlankOrComment(NextLine)
    /\ IsIncludeLine(NextLine)
    /\ file_paths_to_scan' = <<IncludeTarget(NextLine, config_dir)>> \o file_paths_to_scan
    /\ enqLog' = Append(enqLog, IncludeTarget(NextLine, config_dir))
    /\ lineno' = lineno + 1
    /\ UNCHANGED <<fs, auditVars, pc, caller, runs, config_file_path, config_dir, found_directives,
                   processed_files, current_path, result, scanLog, prevRoot, prevResult>>

\* Lines 159-166: an include line appends its path to the work list.
LineInclude ==
    /\ HasLine
    /\ ~IsBlankOrComment(NextLine)
    /\ IsIncludeLine(NextLine)
    /\ file_paths_to_scan' = Append(file_paths_to_scan, IncludeTarget(NextLine, config_dir))
    /\ enqLog' = Append(enqLog, IncludeTarget(NextLine, config_dir))
    /\ lineno' = lineno + 1
    /\ UNCHANGED <<fs, auditVars, pc, caller, runs, config_file_path, config_dir, found_directives,
                   processed_files, current_path, result, scanLog, prevRoot, prevResult>>

\* Lines 169-175: any other line is split into a directive and its value.
\* parts[0] of a line without a token raises IndexError, which line 177
\* catches: the rest of the file is abandoned.
LineDirective ==
    /\ HasLine
    /\ ~IsBlankOrComment(NextLine)
    /\ ~IsIncludeLine(NextLine)
    /\ IF LineParts[NextLine] = << >>
       THEN /\ pc' = "while"
            /\ UNCHANGED <<found_directives, lineno>>
       ELSE /\ found_directives' = StoreDirective(found_directives, NextLine)
            /\ lineno' = lineno + 1
            /\ pc' = pc
    /\ UNCHANGED <<fs, auditVars, caller, runs, config_file_path, config_dir, processed_files,
                   file_paths_to_scan, current_path, result, histVars>>

\* Line 152 at the end of the file: back to the while loop.
EndOfFile ==
    /\ pc = "for"
    /\ fs[current_path].failAt = NoFail
    /\ lineno = Len(fs[current_path].lines)
    /\ pc' = "while"
    /\ UNCHANGED <<fs, auditVars, caller, runs, localVars, result, histVars>>

\* Mutant: the try statement encloses the while loop, so that an exception
\* ends the traversal and found_directives is returned as it is.
ReadErrorAborts ==
    /\ pc = "for"
    /\ fs[current_path].failAt # NoFail
    /\ lineno = fs[current_path].failAt
    /\ result' = found_directives
    /\ pc' = ReturnPc(caller)
    /\ UNCHANGED <<fs, auditVars, caller, runs, localVars, histVars>>

\* Lines 177-178: opening or reading raises; the exception is logged and the
\* while loop goes on.
ReadError ==
    /\ pc = "for"
    /\ fs[current_path].failAt # NoFail
    /\ lineno = fs[current_path].failAt
    /\ pc' = "while"
    /\ UNCHANGED <<fs, auditVars, caller, runs, localVars, result, histVars>>

\* One step of a running _parse_config_files.
ParseStep ==
    \/ Return
    \/ SkipProcessed
    \/ SkipMissing
    \/ OpenFile
    \/ LineSkip
    \/ LineInclude
    \/ LineDirective
    \/ EndOfFile
    \/ ReadError

\* ------------------------------------------------------------------------
\* Specification of the directive collector called directly
\* ------------------------------------------------------------------------

Init ==
    /\ \E r \in RootFiles, a \in AFiles, b \in BFiles :
          fs = [p \in Paths |-> IF p = main_config_file THEN r
                                ELSE IF p = PathA THEN a ELSE b]
    /\ pc = "idle"
    /\ caller = "direct"
    /\ runs = 0
    /\ config_file_path = << >>
    /\ config_dir = << >>
    /\ found_directives = InitFound
    /\ processed_files = {}
    /\ file_paths_to_scan = << >>
    /\ current_path = << >>
    /\ lineno = 0
    /\ result = MissingRootResult
    /\ scanLog = << >>
    /\ enqLog = << >>
    /\ prevRoot = << >>
    /\ prevResult = MissingRootResult
    /\ audit_results = NoResults
    /\ report = NoReport
    /\ outcome = "none"

Next ==
    \/ \E path \in Roots : Call(path)
    \/ ParseStep

Spec == Init /\ [][Next]_vars

\* Trees whose include lines can form a cycle through the root.
InitCycle ==
    /\ \E r \in CycleRootFiles, a \in CycleAFiles :
          fs = [p \in Paths |-> IF p = main_config_file THEN r
                                ELSE IF p = PathA THEN a ELSE Missing]
    /\ pc = "idle"
    /\ caller = "direct"
    /\ runs = 0
    /\ config_file_path = << >>
    /\ config_dir = << >>
    /\ found_directives = InitFound
    /\ processed_files = {}
    /\ file_paths_to_scan = << >>
    /\ current_path = << >>
    /\ lineno = 0
    /\ result = MissingRootResult
    /\ scanLog = << >>
    /\ enqLog = << >>
    /\ prevRoot = << >>
    /\ prevResult = MissingRootResult
    /\ audit_results = NoResults
    /\ report = NoReport
    /\ outcome = "none"

\* The program is sequential: a call of _parse_config_files that has started
\* keeps taking steps until it returns.
FairSpec == InitCycle /\ [][Next]_vars /\ WF_vars(ParseStep)

\* Trees with included files that are absent or fail to be opened or read.
InitErr ==
    /\ \E r \in ErrRootFiles, a \in ErrAFiles, b \in ErrBFiles :
          fs = [p \in Paths |-> IF p = main_config_file THEN r
                                ELSE IF p = PathA THEN a ELSE b]
    /\ pc = "idle"
    /\ caller = "direct"
    /\ runs = 0
    /\ config_file_path = << >>
    /\ config_dir = << >>
    /\ found_directives = InitFound
    /\ processed_files = {}
    /\ file_paths_to_scan = << >>
    /\ current_path = << >>
    /\ lineno = 0
    /\ result = MissingRootResult
    /\ scanLog = << >>
    /\ enqLog = << >>
    /\ prevRoot = << >>
    /\ prevResult = MissingRootResult
    /\ audit_results = NoResults
    /\ report = NoReport
    /\ outcome = "none"

\* The collector on the trees with failing files, a started call taking
\* steps until it returns.
FairSpecErr == InitErr /\ [][Next]_vars /\ WF_vars(ParseStep)

\* ------------------------------------------------------------------------
\* External commands and the files the audits read
\* ------------------------------------------------------------------------

\* How a command run by _run_command ends: exit status 0 with output, exit
\* status 0 without output, or a failure (non-zero exit status, command not
\* found, any other exception).
CommandRuns == {"output", "silent", "failed"}

\* _run_command: (stdout, None) on exit status 0, (None, error_msg) otherwise.
RunCommand(run) ==
    IF run = "failed" THEN [stdout |-> "None", stderr |-> "error_msg"]
    ELSE IF run = "silent" THEN [stdout |-> "", stderr |-> "None"]
    ELSE [stdout |-> "text", stderr |-> "None"]

\* Truth value of a stdout returned by _run_command (`if stdout:`).
Truthy(stdout) == stdout \notin {"None", ""}

\* The keys of the patterns dict of _get_apache_version_and_paths.
PatternKeys == {"server_version", "server_built", "server_mpm", "config_file"}

\* How `apache2ctl -V` ends: the executable is absent (FileNotFoundError), it
\* cannot be executed (another OSError), it exits with a non-zero status
\* (CalledProcessError), or it exits with status 0 and the patterns of
\* `matched` match its output.
ApacheCtlRuns ==
    {[status |-> st, matched |-> {}] : st \in {"not_found", "os_error", "exit_nonzero"}}
    \cup {[status |-> "exit_zero", matched |-> m] :
            m \in {{}, {"server_version"}, PatternKeys}}

\* How `apache2ctl -M` ends.
ModuleRuns == {"not_found", "exit_nonzero", "exit_zero"}

\* 'ID=ubuntu\n'
L_OsId == <<"I", "D", "=", "u", "b", "u", "n", "t", "u", "\n">>

\* 'NAME="Ubuntu"\n'
L_OsName == <<"N", "A", "M", "E", "=", "\"", "U", "b", "u", "n", "t", "u", "\"", "\n">>

\* Contents of /etc/os-release: absent, two assignments, or the same followed
\* by an empty line.
OsReleaseFiles == {
    Missing,
    File(<<L_OsId, L_OsName>>, NoFail),
    File(<<L_OsId, L_OsName, L_Blank>>, NoFail) }

\* What /etc/ssh/sshd_config says about PermitRootLogin.
SshdConfigs == {"absent", "permit_root_login_yes", "other"}

\* files_to_check of _check_sensitive_file_permissions
FilesToCheck == {"/etc/shadow", "/etc/passwd", "/etc/group", "/etc/sudoers"}

\* ------------------------------------------------------------------------
\* run_apache_audit
\* ------------------------------------------------------------------------

\* _get_apache_version_and_paths: None unless the command exits with status
\* 0 and at least one pattern matches; an OSError other than
\* FileNotFoundError is not caught.
GetApacheVersionAndPaths(run) ==
    IF run.status = "os_error"
    THEN [raised |-> TRUE, none |-> TRUE, info |-> [k \in {} |-> "text"]]
    ELSE IF run.status # "exit_zero" \/ run.matched = {}
    THEN [raised |-> FALSE, none |-> TRUE, info |-> [k \in {} |-> "text"]]
    ELSE [raised |-> FALSE, none |-> FALSE, info |-> [k \in run.matched |-> "text"]]

\* _get_loaded_modules: the sorted module names, [] when the command fails.
GetLoadedModules(run) ==
    IF run = "exit_zero" THEN <<"core_module", "ssl_module">> ELSE << >>

\* audit_results as run_apache_audit creates it (lines 198-206; the date of
\* the metadata is left out).
ApacheResults ==
    [module |-> "audit_apache",
     server_info |-> [k \in {} |-> "text"],
     loaded_modules |-> << >>,
     config_directives |-> MissingRootResult,
     error |-> "absent"]

\* Lines 196-215: the audit starts and asks apache2ctl for the version.
ApacheStart ==
    /\ pc \in {"idle", "done"}
    /\ runs < MaxRuns
    /\ runs' = runs + 1
    /\ report' = NoReport
    /\ \E run \in ApacheCtlRuns :
          LET server_info == GetApacheVersionAndPaths(run)
          IN  IF server_info.raised
              THEN /\ audit_results' = ApacheResults
                   /\ outcome' = "raised"
                   /\ pc' = "done"
              ELSE IF server_info.none
              THEN /\ audit_results' =
                          [ApacheResults EXCEPT
                             !.error = "Impossible de communiquer avec Apache via 'apache2ctl'."]
                   /\ outcome' = "returned_without_report"
                   /\ pc' = "done"
              ELSE /\ audit_results' = [ApacheResults EXCEPT !.server_info = server_info.info]
                   /\ outcome' = "running"
                   /\ pc' = "apache_modules"
    /\ UNCHANGED <<fs, caller, localVars, result, histVars>>

\* Lines 218-222: the modules are listed and _parse_config_files is called
\* on main_config_file.
ApacheModules ==
    /\ pc = "apache_modules"
    /\ \E run \in ModuleRuns :
          audit_results' = [audit_results EXCEPT !.loaded_modules = GetLoadedModules(run)]
    /\ ParseEnter(main_config_file, "apache")
    /\ UNCHANGED <<fs, runs, report, outcome>>

\* Lines 222-232: the returned directives are stored and the report is
\* written.
ApacheWrite ==
    /\ pc = "apache_write"
    /\ audit_results' = [audit_results EXCEPT !.config_directives = result]
    /\ report' = audit_results'
    /\ outcome' = "report_written"
    /\ pc' = "done"
    /\ UNCHANGED <<fs, caller, runs, localVars, result, histVars>>

\* ------------------------------------------------------------------------
\* run_linux_audit
\* ------------------------------------------------------------------------

\* str.split('=', 1)
SplitEq1(s) ==
    IF \E i \in 1..Len(s) : s[i] = "="
    THEN LET i == CHOOSE k \in 1..Len(s) :
                    s[k] = "=" /\ \A j \in 1..(k-1) : s[j] # "="
         IN  << SubSeq(s, 1, i - 1), SubSeq(s, i + 1, Len(s)) >>
    ELSE << s >>

\* str.strip('"')
StripQuotes(s) ==
    IF \E i \in 1..Len(s) : s[i] # "\""
    THEN SubSeq(s,
                CHOOSE i \in 1..Len(s) : s[i] # "\"" /\ \A j \in 1..(i-1) : s[j] = "\"",
                CHOOSE i \in 1..Len(s) : s[i] # "\"" /\ \A j \in (i+1)..Len(s) : s[j] = "\"")
    ELSE << >>

\* 'kernel_version'
K_kernel_version == <<"k", "e", "r", "n", "e", "l", "_", "v", "e", "r", "s", "i", "o", "n">>

\* 'distribution'
K_distribution == <<"d", "i", "s", "t", "r", "i", "b", "u", "t", "i", "o", "n">>

\* 'Unknown'
V_Unknown == <<"U", "n", "k", "n", "o", "w", "n">>

\* The output of `uname -a`.
V_uname == <<"L", "i", "n", "u", "x">>

\* d[key] = value on a dict.
DictSet(d, key, value) == [k \in DOMAIN d \cup {key} |-> IF k = key THEN value ELSE d[k]]

\* Lines 69-71: the loop over the lines of /etc/os-release; unpacking the
\* split of a line without "=" into key, value raises ValueError.
RECURSIVE ReadOsRelease(_, _)
ReadOsRelease(lines, os_info) ==
    IF lines = << >> THEN [raised |-> FALSE, info |-> os_info]
    ELSE LET parts == SplitEq1(Strip(Head(lines)))
         IN  IF Len(parts) # 2
             THEN [raised |-> TRUE, info |-> os_info]
             ELSE ReadOsRelease(Tail(lines),
                                DictSet(os_info, Lower(parts[1]), StripQuotes(parts[2])))

\* _get_os_info: only FileNotFoundError is caught around the read of
\* /etc/os-release.
GetOsInfo(uname, os_release) ==
    LET kernel == IF Truthy(RunCommand(uname).stdout)
                  THEN DictSet(<< >>, K_kernel_version, V_uname)
                  ELSE << >>
    IN  IF os_release.kind = "missing"
        THEN [raised |-> FALSE, info |-> DictSet(kernel, K_distribution, V_Unknown)]
        ELSE ReadOsRelease(os_release.lines, kernel)

\* _get_user_info, from the outcome of `sudo cat /etc/shadow` and the state
\* of /etc/ssh/sshd_config (the passwd and group files are read as present).
GetUserInfo(shadow, sshd) ==
    [login_users |-> <<"root">>,
     sudo_users |-> << >>,
     users_with_no_password |->
        IF Truthy(RunCommand(shadow).stdout) THEN <<"guest">> ELSE << >>,
     root_ssh_login |->
        IF sshd = "absent" THEN "Not Found"
        ELSE IF sshd = "permit_root_login_yes" THEN "Permitted"
        ELSE "Not Permitted or Default"]

\* _get_network_info, from the outcomes of ss, ufw and iptables.
GetNetworkInfo(ss, ufw, iptables) ==
    [listening_ports |->
        IF Truthy(RunCommand(ss).stdout) THEN "lines of ss" ELSE "Not checked",
     firewall_status |->
        IF Truthy(RunCommand(ufw).stdout) THEN "text of ufw"
        ELSE IF Truthy(RunCommand(iptables).stdout) THEN "Using iptables"
        ELSE "No firewall tool (UFW/iptables) found or active."]

\* _check_sensitive_file_permissions, from whether the files exist and the
\* outcome of `sudo stat`.
CheckSensitiveFilePermissions(exist, stat) ==
    [f \in FilesToCheck |->
        IF ~exist THEN "File not found"
        ELSE IF Truthy(RunCommand(stat).stdout) THEN "current and recommended mode"
        ELSE "Could not stat file"]

\* _check_pending_updates, from the outcome of `apt-get -s dist-upgrade`.
CheckPendingUpdates(apt) ==
    IF Truthy(RunCommand(apt).stdout) THEN "package counts"
    ELSE "Could not check for updates."

\* audit_results as run_linux_audit creates it (lines 233-243; the date of
\* the metadata is left out).
LinuxResults ==
    [module |-> "audit_linux",
     os_info |-> << >>,
     user_info |-> << >>,
     network_info |-> << >>,
     file_permissions |-> << >>,
     pending_updates |-> << >>]

\* Lines 231-246: the audit starts and collects the OS information.
LinuxOsInfo ==
    /\ pc \in {"idle", "done"}
    /\ runs < MaxRuns
    /\ runs' = runs + 1
    /\ report' = NoReport
    /\ \E uname \in CommandRuns, os_release \in OsReleaseFiles :
          LET os_info == GetOsInfo(uname, os_release)
          IN  IF os_info.raised
              THEN /\ audit_results' = LinuxResults
                   /\ outcome' = "raised"
                   /\ pc' = "done"
              ELSE /\ audit_results' = [LinuxResults EXCEPT !.os_info = os_info.info]
                   /\ outcome' = "running"
                   /\ pc' = "linux_user"
    /\ UNCHANGED <<fs, caller, localVars, result, histVars>>

\* Line 247
LinuxUserInfo ==
    /\ pc = "linux_user"
    /\ \E shadow \in CommandRuns, sshd \in SshdConfigs :
          audit_results' = [audit_results EXCEPT !.user_info = GetUserInfo(shadow, sshd)]
    /\ pc' = "linux_network"
    /\ UNCHANGED <<fs, caller, runs, localVars, result, histVars, report, outcome>>

\* Line 248
LinuxNetworkInfo ==
    /\ pc = "linux_network"
    /\ \E ss \in CommandRuns, ufw \in CommandRuns, iptables \in CommandRuns :
          audit_results' =
              [audit_results EXCEPT !.network_info = GetNetworkInfo(ss, ufw, iptables)]
    /\ pc' = "linux_permissions"
    /\ UNCHANGED <<fs, caller, runs, localVars, result, histVars, report, outcome>>

\* Line 249
LinuxFilePermissions ==
    /\ pc = "linux_permissions"
    /\ \E exist \in BOOLEAN, stat \in CommandRuns :
          audit_results' =
              [audit_results EXCEPT
                 !.file_permissions = CheckSensitiveFilePermissions(exist, stat)]
    /\ pc' = "linux_updates"
    /\ UNCHANGED <<fs, caller, runs, localVars, result, histVars, report, outcome>>

\* Line 250
LinuxPendingUpdates ==
    /\ pc = "linux_updates"
    /\ \E apt \in CommandRuns :
          audit_results' = [audit_results EXCEPT !.pending_updates = CheckPendingUpdates(apt)]
    /\ pc' = "linux_write"
    /\ UNCHANGED <<fs, caller, runs, localVars, result, histVars, report, outcome>>

\* Lines 252-258: the report is written.
LinuxWrite ==
    /\ pc = "linux_write"
    /\ report' = audit_results
    /\ outcome' = "report_written"
    /\ pc' = "done"
    /\ UNCHANGED <<fs, caller, runs, localVars, result, histVars, audit_results>>

\* ------------------------------------------------------------------------
\* Specification of the two audits
\* ------------------------------------------------------------------------

InitAudit ==
    /\ \E r \in AuditRootFiles, a \in AuditAFiles :
          fs = [p \in Paths |-> IF p = main_config_file THEN r
                                ELSE IF p = PathA THEN a ELSE Missing]
    /\ pc = "idle"
    /\ caller = "direct"
    /\ runs = 0
    /\ config_file_path = << >>
    /\ config_dir = << >>
    /\ found_directives = InitFound
    /\ processed_files = {}
    /\ file_paths_to_scan = << >>
    /\ current_path = << >>
    /\ lineno = 0
    /\ result = MissingRootResult
    /\ scanLog = << >>
    /\ enqLog = << >>
    /\ prevRoot = << >>
    /\ prevResult = MissingRootResult
    /\ audit_results = NoResults
    /\ report = NoReport
    /\ outcome = "none"

NextAudit ==
    \/ ApacheStart
    \/ ApacheModules
    \/ ApacheWrite
    \/ ParseStep
    \/ LinuxOsInfo
    \/ LinuxUserInfo
    \/ LinuxNetworkInfo
    \/ LinuxFilePermissions
    \/ LinuxPendingUpdates
    \/ LinuxWrite

SpecAudit == InitAudit /\ [][NextAudit]_vars

\* ------------------------------------------------------------------------
\* Properties
\* ------------------------------------------------------------------------

\* A direct call of _parse_config_files has returned.
Returned == pc = "done" /\ caller = "direct" /\ runs > 0

\* The argument of the call names no file: it is empty or does not exist.
RootMissing == config_file_path = << >> \/ ~Exists(config_file_path)

\* Number of occurrences of x in the sequence s.
Count(x, s) == Cardinality({i \in DOMAIN s : s[i] = x})

\* C1: a call on a root path that is empty or does not exist returns a map
\* holding every directive of interest, each with the value "Non trouvé".
C1_MissingRootAllNotFound ==
    (Returned /\ RootMissing) =>
        \A d \in DirectiveSet : d \in DOMAIN result /\ result[d] = NonTrouve

\* C2: every audit that has ended has written its report file.
C2_AuditAlwaysWritesReport ==
    (pc = "done" /\ outcome # "none") =>
        (outcome = "report_written" /\ report.module = audit_results.module)

\* C3: the map a call returns has exactly the directives of interest as keys.
C3_ExactlyOneEntryPerDirective ==
    Returned => DOMAIN result = DirectiveSet

\* C4: during one call no path is opened more than once.
C4_EachPathOpenedAtMostOnce ==
    \A i, j \in DOMAIN scanLog : scanLog[i] = scanLog[j] => i = j

\* C4 witness: a call has returned after a path that include lines named at
\* least twice was opened, once.
C4_Witness ==
    /\ Returned
    /\ \E p \in Paths : Count(p, enqLog) >= 2 /\ Count(p, scanLog) = 1

\* The i-th line of the file at path p, stripped.
LineAt(p, i) == Stripped[fs[p].lines[i]]

\* The lines of the file at path p that a scan reads: all of them, or those
\* delivered before the read raises.
ReadLines(p) == IF Exists(p) THEN 1..ReadLimit(fs[p]) ELSE {}

\* The paths the include lines read from the file at path p enqueue.
Includes(p) ==
    {IncludeTarget(LineAt(p, i), config_dir) :
        i \in {k \in ReadLines(p) : ~IsBlankOrComment(LineAt(p, k)) /\ IsIncludeLine(LineAt(p, k))}}

\* The files whose include lines lead back to the root: the root when it
\* includes itself, and every file the root includes that includes the root.
CycleFiles ==
    {q \in Paths : /\ Exists(q)
                   /\ q \in Includes(config_file_path) \cup {config_file_path}
                   /\ config_file_path \in Includes(q)}

\* The tree the running call started on has an include cycle through the root.
RootCycle == ~RootMissing /\ CycleFiles # {}

\* C5: a call on a tree whose include lines form a cycle through the root
\* returns, with an empty work list and with the root and every file of the
\* cycle opened exactly once.
C5_CycleTerminates ==
    (pc \in {"while", "for"} /\ caller = "direct" /\ RootCycle)
        ~> (/\ Returned
            /\ file_paths_to_scan = << >>
            /\ \A q \in CycleFiles \cup {config_file_path} : Count(q, scanLog) = 1)

\* C5 witness: a call has returned on a tree where the root includes a second
\* file that includes the root, both opened once.
C5_Witness ==
    /\ Returned
    /\ ~RootMissing
    /\ \E q \in CycleFiles : q # config_file_path
    /\ \A q \in CycleFiles \cup {config_file_path} : Count(q, scanLog) = 1

\* "d is the first whitespace-delimited token of the stripped line".
FirstTokenIs(line, d) ==
    /\ StartsWith(line, d)
    /\ Len(line) > Len(d) => line[Len(d) + 1] \in Whitespace

\* The text of the stripped line after its first token d and the whitespace
\* that follows it; empty when nothing follows.
TrailingText(line, d) == Strip(SubSeq(line, Len(d) + 1, Len(line)))

\* The lines read from the file at path p that set directive d: not
\* comments, first token d.
DirectiveLines(p, d) ==
    {i \in ReadLines(p) : ~StartsWith(LineAt(p, i), <<"#">>) /\ FirstTokenIs(LineAt(p, i), d)}

\* The value line i of the file at path p gives directive d.
LineValue(p, i, d) ==
    IF TrailingText(LineAt(p, i), d) = << >>
    THEN ActiveSansValeur
    ELSE TrailingText(LineAt(p, i), d)

\* Largest element of a non-empty set of numbers.
Max(S) == CHOOSE x \in S : \A y \in S : y <= x

\* Positions in the scan order of the files that set directive d.
ScansSetting(d) == {k \in DOMAIN scanLog : DirectiveLines(scanLog[k], d) # {}}

\* C6: for every directive that occurs in a scanned file, the returned value
\* is that of the last matching line of the last file, in scan order, that
\* contains the directive (a file's lines being those read from it).
C6_LastFileLastLineWins ==
    (Returned /\ ~RootMissing) =>
        \A d \in DirectiveSet :
            ScansSetting(d) # {} =>
                LET p == scanLog[Max(ScansSetting(d))]
                IN  result[d] = LineValue(p, Max(DirectiveLines(p, d)), d)

\* 'User'
D_User == <<"U", "s", "e", "r">>

\* C6 witness: the root sets User and includes a file, scanned after it, that
\* sets User too; the included file's value is returned.
C6_Witness ==
    /\ Returned
    /\ Len(scanLog) >= 2
    /\ DirectiveLines(scanLog[1], D_User) # {}
    /\ Max(ScansSetting(D_User)) = 2
    /\ result[D_User] = <<"a">>

\* The first whitespace-delimited token of the stripped line, lower-cased,
\* is include or includeoptional.
IsIncludeToken(line) ==
    \E w \in {<<"i", "n", "c", "l", "u", "d", "e">>,
              <<"i", "n", "c", "l", "u", "d", "e", "o", "p", "t", "i", "o", "n", "a", "l">>} :
        FirstTokenIs(Lower(line), w)

\* The root file of the call has no Include or IncludeOptional line.
RootWithoutIncludes ==
    /\ ~RootMissing
    /\ \A i \in 1..Len(fs[config_file_path].lines) :
          ~IsIncludeToken(LineAt(config_file_path, i))

\* C7 as stated: on a root without include lines, a directive no line has as
\* its first token is "Non trouvé", and a directive some line has as its
\* first token has the exact trailing text of such a line.
C7_ExactTrailingText ==
    (Returned /\ RootWithoutIncludes) =>
        \A d \in DirectiveSet :
            IF DirectiveLines(config_file_path, d) = {}
            THEN result[d] = NonTrouve
            ELSE \E i \in DirectiveLines(config_file_path, d) :
                    result[d] = TrailingText(LineAt(config_file_path, i), d)

\* C7 amended: on a root without include lines, a directive no line has as
\* its first token is "Non trouvé"; a directive some line has as its first
\* token has the trailing text of the last such line, or
\* "Activé (sans valeur)" when that line has no trailing text.
C7_TrailingTextOrSentinel ==
    (Returned /\ RootWithoutIncludes) =>
        \A d \in DirectiveSet :
            IF DirectiveLines(config_file_path, d) = {}
            THEN result[d] = NonTrouve
            ELSE result[d] =
                    LineValue(config_file_path, Max(DirectiveLines(config_file_path, d)), d)

\* C7 witness: a root without include lines whose last User line has no
\* value, after a line with a value, has been resolved to the sentinel.
C7_Witness ==
    /\ Returned
    /\ RootWithoutIncludes
    /\ Cardinality(DirectiveLines(config_file_path, D_User)) = 2
    /\ result[D_User] = ActiveSansValeur

\* The raw line is blank, or its first non-whitespace character is "#".
RawBlankOrComment(raw) ==
    FirstNonWs(raw) > Len(raw) \/ raw[FirstNonWs(raw)] = "#"

\* C8: reading a blank line or a comment line changes no entry of
\* found_directives, enqueues nothing, and the scan goes on with the next
\* line of the same file.
C8_BlankAndCommentLinesSkipped ==
    [][(HasLine /\ RawBlankOrComment(fs[current_path].lines[lineno + 1])) =>
          /\ found_directives' = found_directives
          /\ file_paths_to_scan' = file_paths_to_scan
          /\ pc' = "for"
          /\ current_path' = current_path
          /\ lineno' = lineno + 1]_vars

\* C8 witness: a call has returned after scanning a file with a blank line
\* and the comment "# Include d/b": d/b was never enqueued and the User line
\* between them was stored.
C8_Witness ==
    /\ Returned
    /\ \E k \in DOMAIN scanLog :
          /\ fs[scanLog[k]].lines = <<L_Blank, L_UserSpaced, L_CommentInclude>>
          /\ Max(ScansSetting(D_User)) = k
    /\ PathB \notin {enqLog[i] : i \in DOMAIN enqLog}
    /\ result[D_User] = <<"a", " ", "1">>

\* C9: a second call on the same root path, the tree unchanged, returns what
\* the first call returned.
C9_SecondCallSameResult ==
    (Returned /\ runs >= 2 /\ prevRoot = config_file_path) => result = prevResult

\* C9 witness: the second of two calls on the same root has returned, after
\* scanning two files and finding a value.
C9_Witness ==
    /\ Returned
    /\ runs = 2
    /\ prevRoot = config_file_path
    /\ Len(scanLog) >= 2
    /\ result = prevResult
    /\ result[D_User] # NonTrouve

\* C10: a line that is not a comment and whose first token is include or
\* includeoptional in any letter case, followed by spaces or tabs and a
\* path, appends that path to the work list and sets no directive.
C10_IncludeAnyCaseAnyWhitespace ==
    [][(/\ HasLine
        /\ ~RawBlankOrComment(fs[current_path].lines[lineno + 1])
        /\ IsIncludeToken(NextLine)
        /\ Len(SplitMax1(NextLine)) = 2) =>
          /\ file_paths_to_scan' =
                Append(file_paths_to_scan, IncludeTarget(NextLine, config_dir))
          /\ found_directives' = found_directives]_vars

\* The first whitespace-delimited token of the stripped line.
FirstToken(line) == SubSeq(line, 1, FirstWsFrom(line, 1) - 1)

\* The path text of an include line: what follows its first token.
IncludePathText(raw) == TrailingText(Strip(raw), FirstToken(Strip(raw)))

\* The path an include line is to enqueue in a call on the given root: its
\* path text as written when that starts with "/", else the join of the
\* directory of the root with the path text as written.
ResolvedInclude(raw, root) ==
    IF IncludePathText(raw)[1] = "/"
    THEN IncludePathText(raw)
    ELSE PathJoin(Dirname(root), IncludePathText(raw))

\* C11: whichever file an include line is read from, it enqueues exactly one
\* path: its path text unchanged when absolute, else the join of the
\* directory of the root configuration file with its path text as written.
C11_IncludeResolvedAgainstRootDir ==
    [][(HasLine /\ file_paths_to_scan' # file_paths_to_scan) =>
          file_paths_to_scan' =
              Append(file_paths_to_scan,
                     ResolvedInclude(fs[current_path].lines[lineno + 1], config_file_path))]_vars

\* '/etc/apache2/d/a'
PathDA == <<"/", "e", "t", "c", "/", "a", "p", "a", "c", "h", "e", "2", "/", "d", "/", "a">>

\* '/etc/apache2/d/*'
PathGlob == <<"/", "e", "t", "c", "/", "a", "p", "a", "c", "h", "e", "2", "/", "d", "/", "*">>

\* C11 witness: a call has returned after scanning the root, a file it
\* includes and, two levels down, a file of another directory whose lines
\* "Include a" and "Include d/*" enqueued /etc/apache2/a and the literal
\* /etc/apache2/d/*, and neither /etc/apache2/d/a nor a second /etc/apache2/d/b.
C11_Witness ==
    /\ Returned
    /\ scanLog = <<main_config_file, PathA, PathB>>
    /\ Count(PathA, enqLog) = 2
    /\ Count(PathGlob, enqLog) = 1
    /\ Count(PathDA, enqLog) = 0
    /\ Count(PathB, enqLog) = 1

\* 'Listen'
D_Listen == <<"L", "i", "s", "t", "e", "n">>

\* '/etc/apache2/x'
PathX == <<"/", "e", "t", "c", "/", "a", "p", "a", "c", "h", "e", "2", "/", "x">>

\* The file at path p cannot be read to its end.
Fails(p) == Exists(p) /\ fs[p].failAt # NoFail

\* The running call has enqueued a path other than the root that does not
\* exist or whose file cannot be read to its end.
FailingPathQueued ==
    \E i \in DOMAIN enqLog : i > 1 /\ (~Exists(enqLog[i]) \/ Fails(enqLog[i]))

\* The lines read from the file at path p that name a file to include.
IncludeLines(p) ==
    {i \in ReadLines(p) : ~StartsWith(LineAt(p, i), <<"#">>) /\ IsIncludeToken(LineAt(p, i))}

\* Sum of f[k] over the positions k of the sequence f.
RECURSIVE SumSeq(_)
SumSeq(f) == IF f = << >> THEN 0 ELSE Head(f) + SumSeq(Tail(f))

\* Number of include lines read from the files scanned so far.
IncludeLinesRead == SumSeq([k \in DOMAIN scanLog |-> Cardinality(IncludeLines(scanLog[k]))])

\* What a returned call has done: the work list is empty; every path it
\* enqueued that exists was opened; it enqueued no more paths than include
\* lines were read; and a directive has a value exactly when a line read
\* from a scanned file sets it.
TraversalComplete ==
    /\ file_paths_to_scan = << >>
    /\ \A i \in DOMAIN enqLog : Exists(enqLog[i]) => Count(enqLog[i], scanLog) = 1
    /\ Len(enqLog) <= 1 + IncludeLinesRead
    /\ \A d \in DirectiveSet :
          d \in DOMAIN result /\ (result[d] # NonTrouve <=> ScansSetting(d) # {})

\* C12: the scan of a file that ends, by a failure or at its last line,
\* leaves the values stored and the work list as they are and goes back to
\* the work list; a returned call has completed the traversal; and a call
\* that has enqueued an absent or failing non-root path returns.
C12_FailingFilesDoNotAbort ==
    /\ [][(pc = "for" /\ pc' # "for") =>
             /\ pc' = "while"
             /\ found_directives' = found_directives
             /\ file_paths_to_scan' = file_paths_to_scan]_vars
    /\ []((Returned /\ ~RootMissing) => TraversalComplete)
    /\ ((pc \in {"while", "for"} /\ caller = "direct" /\ FailingPathQueued)
            ~> (Returned /\ TraversalComplete))

\* C12 witness: a call has returned on a tree where the root includes the
\* absent x and then a; reading a raised after "Listen 80" and
\* "IncludeOptional d/b", before "User a" and "Include x"; d/b was scanned
\* after the failure; Listen is 80, User has no value and x was enqueued by
\* the root and by d/b only.
C12_Witness ==
    /\ Returned
    /\ fs[PathA].failAt = 2
    /\ scanLog = <<main_config_file, PathA, PathB>>
    /\ enqLog = <<main_config_file, PathX, PathA, PathB, PathX, PathA>>
    /\ result[D_Listen] = <<"8", "0">>
    /\ result[D_User] = NonTrouve

\* Positions of enqLog where a path that exists was enqueued for the first
\* time.
FirstEnqueues ==
    {i \in DOMAIN enqLog : Exists(enqLog[i]) /\ \A j \in 1..(i - 1) : enqLog[j] # enqLog[i]}

\* The k-th path, in the order of enqueueing, among the paths that exist.
KthEnqueued(k) ==
    enqLog[CHOOSE i \in FirstEnqueues : Cardinality({j \in FirstEnqueues : j <= i}) = k]

\* The files opened so far are the first files enqueued, in that order.
ScannedInEnqueueOrder ==
    /\ Len(scanLog) <= Cardinality(FirstEnqueues)
    /\ \A k \in DOMAIN scanLog : scanLog[k] = KthEnqueued(k)

\* The file at path p has, among the lines read from it, an include line
\* naming the file at path q followed by a line setting directive d.
SetsAfterIncluding(p, q, d) ==
    \E i \in IncludeLines(p), j \in DirectiveLines(p, d) :
        /\ i < j
        /\ ResolvedInclude(fs[p].lines[i], config_file_path) = q

\* Whenever a file scanned later is included by a file scanned earlier on a
\* line before one that sets a directive both set, the value returned is
\* that of the last line setting it in the included file or a file scanned
\* after it.
IncludedFileOverrides ==
    \A k, l \in DOMAIN scanLog : \A d \in DirectiveSet :
        (/\ k < l
         /\ DirectiveLines(scanLog[l], d) # {}
         /\ SetsAfterIncluding(scanLog[k], scanLog[l], d)) =>
            LET m == Max(ScansSetting(d))
            IN  /\ m >= l
                /\ result[d] = LineValue(scanLog[m], Max(DirectiveLines(scanLog[m], d)), d)

\* A step uses the work list as a queue: while a file is read a path is
\* only added at the back, and a file is opened only when no file is being
\* read, from the front.
QueueStep ==
    /\ (pc = "for" /\ file_paths_to_scan' # file_paths_to_scan) =>
          /\ Len(file_paths_to_scan') = Len(file_paths_to_scan) + 1
          /\ SubSeq(file_paths_to_scan', 1, Len(file_paths_to_scan)) = file_paths_to_scan
    /\ (Len(scanLog') > Len(scanLog)) =>
          /\ pc = "while"
          /\ scanLog' = Append(scanLog, Head(file_paths_to_scan))
          /\ file_paths_to_scan' = Tail(file_paths_to_scan)

====
